---- MODULE Spec2Model ----
(***************************************************************************)
(* A model of the draco block-state registry (draco/state/state.go), of    *)
(* the chunk encoder (package chunk: Encode, EncodeSubChunk, EncodeBiomes, *)
(* encodePalettedStorage) and of the buffer pool the encoder shares.       *)
(*                                                                         *)
(* Go strings are byte sequences: a property key, a string property value  *)
(* and a property digest are sequences of numbers in 0..255.  Block names  *)
(* are only ever compared for equality and stay TLA+ strings.              *)
(***************************************************************************)
EXTENDS Integers, Sequences, FiniteSets, TLC

\* ------------------------------------------------------------------ bounds
\* Longest string property value of the hashing inputs.
MaxStrLen == 1
\* Longest record stream the registry build consumes.
MaxStream == 3
\* Most sub-chunks of a chunk.
MaxSub == 2
\* Goroutines encoding concurrently.
NWorkers == 2

\* --------------------------------------------------------------- constants
SubChunkVersion == 9

VARIABLES
    \* draco/state/state.go: the registry
    blocks, stateRuntimeIDs, nbtBlocks, randomTickBlocks, airRID,
    FilteringBlocks, LightBlocks, installed,
    \* init(): the decoded record stream, the loop position, the outcome
    stream, pos, initPc,
    \* the last lookup / air read made against the registry
    lookupArg, lookupRes, airRead,
    \* the build's byte order (the unsafe int32 cast is native-endian)
    bigEndian,
    \* hashProperties inputs and outputs
    hp, hq, orderP, orderQ, digestP, digestQ, hashPc,
    \* package chunk: the pool of buffers and every buffer's content
    pool, bufs,
    \* Encode: the chunk, the encoding, the loop index, the data built
    chunk, enc, encI, encD, encPc,
    \* concurrent encode calls
    calls

regVars == <<blocks, stateRuntimeIDs, nbtBlocks, randomTickBlocks, airRID,
             FilteringBlocks, LightBlocks, installed, stream, pos, initPc,
             lookupArg, lookupRes, airRead>>
hashVars == <<hp, hq, orderP, orderQ, digestP, digestQ, hashPc>>
poolVars == <<pool, bufs>>
encVars == <<chunk, enc, encI, encD, encPc>>
vars == <<regVars, bigEndian, hashVars, poolVars, encVars, calls>>

\* ------------------------------------------------------------ byte strings
\* Go's < on strings: bytewise lexicographic order.
RECURSIVE StrLess(_, _)
StrLess(a, b) ==
    IF Len(b) = 0 THEN FALSE
    ELSE IF Len(a) = 0 THEN TRUE
    ELSE IF Head(a) # Head(b) THEN Head(a) < Head(b)
    ELSE StrLess(Tail(a), Tail(b))

\* All byte strings over alphabet A of length at most n.
RECURSIVE StringsUpTo(_, _)
StringsUpTo(A, n) ==
    IF n = 0 THEN {<<>>}
    ELSE LET S == StringsUpTo(A, n - 1)
         IN  S \cup {Append(s, a) : s \in S, a \in A}

\* All orders in which the elements of S can be enumerated.
RECURSIVE Perms(_)
Perms(S) ==
    IF S = {} THEN {<<>>}
    ELSE UNION {{<<x>> \o p : p \in Perms(S \ {x})} : x \in S}

\* ---------------------------------------------------------- property values
\* properties[k].(type): one record shape for every dynamic type.
BoolV(x) == [type |-> "bool", b |-> x, n |-> 0, s |-> <<>>]
Uint8V(x) == [type |-> "uint8", b |-> FALSE, n |-> x, s |-> <<>>]
Int32V(x) == [type |-> "int32", b |-> FALSE, n |-> x, s |-> <<>>]
StringV(x) == [type |-> "string", b |-> FALSE, n |-> 0, s |-> x]
\* any other dynamic type (the switch's default case)
Int64V(x) == [type |-> "int64", b |-> FALSE, n |-> x, s |-> <<>>]

\* map[string]interface{}: nil, or a function from keys to values.
NilMap == [nil |-> TRUE, m |-> <<>>]
Map(f) == [nil |-> FALSE, m |-> f]
Keys(properties) == DOMAIN properties.m

\* a := *(*[4]byte)(unsafe.Pointer(&v)): the four bytes of the two's
\* complement of v in the byte order of the build.
Int32Bytes(v, big) ==
    LET b0 == v % 256
        v1 == (v - b0) \div 256
        b1 == v1 % 256
        v2 == (v1 - b1) \div 256
        b2 == v2 % 256
        v3 == (v2 - b2) \div 256
        b3 == v3 % 256
    IN  IF big THEN <<b3, b2, b1, b0>> ELSE <<b0, b1, b2, b3>>

\* One arm of the type switch: the bytes written for a value, or a panic.
valueBytes(v, big) ==
    CASE v.type = "bool" -> [panic |-> FALSE, str |-> IF v.b THEN <<1>> ELSE <<0>>]
      [] v.type = "uint8" -> [panic |-> FALSE, str |-> <<v.n>>]
      [] v.type = "int32" -> [panic |-> FALSE, str |-> Int32Bytes(v.n, big)]
      [] v.type = "string" -> [panic |-> FALSE, str |-> v.s]
      [] OTHER -> [panic |-> TRUE, str |-> <<>>]

\* sort.Slice(keys, keys[i] < keys[j]) as an insertion sort.
RECURSIVE insertKey(_, _)
insertKey(k, sorted) ==
    IF sorted = <<>> THEN <<k>>
    ELSE IF StrLess(k, Head(sorted)) THEN <<k>> \o sorted
    ELSE <<Head(sorted)>> \o insertKey(k, Tail(sorted))

RECURSIVE sortKeysFrom(_, _)
sortKeysFrom(keys, acc) ==
    IF keys = <<>> THEN acc
    ELSE sortKeysFrom(Tail(keys), insertKey(Head(keys), acc))

\* A sort that was left out: the keys stay in iteration order.
sortKeysIterationOrder(keys) == keys

sortKeys(keys) == sortKeysFrom(keys, <<>>)

\* The loop over the sorted keys writing into the strings.Builder.
RECURSIVE writeValues(_, _, _, _)
writeValues(properties, keys, big, acc) ==
    IF keys = <<>> THEN [panic |-> FALSE, str |-> acc]
    ELSE LET w == valueBytes(properties.m[Head(keys)], big)
         IN  IF w.panic THEN [panic |-> TRUE, str |-> <<>>]
             ELSE writeValues(properties, Tail(keys), big, acc \o w.str)

\* hashProperties(properties); order is the order in which `for k := range
\* properties` happens to yield the keys.
hashProperties(properties, order, big) ==
    IF properties.nil THEN [panic |-> FALSE, str |-> <<>>]
    ELSE writeValues(properties, sortKeys(order), big, <<>>)

\* ------------------------------------------------- idle values of each part
NoChunk == [sub |-> <<>>, r |-> <<0, 0>>, biomes |-> <<>>, blockEntities |-> <<>>]
NoData == [SubChunks |-> <<>>, Biomes |-> <<>>, BlockNBT |-> <<>>]
NoArg == [name |-> "", properties |-> NilMap]
NoLookup == [done |-> FALSE, panic |-> FALSE, rid |-> 0, found |-> FALSE]
NoAirRead == [done |-> FALSE, rid |-> 0]
RegIdle ==
    /\ blocks = <<>> /\ stateRuntimeIDs = <<>> /\ nbtBlocks = <<>>
    /\ randomTickBlocks = <<>> /\ airRID = 0
    /\ FilteringBlocks = <<>> /\ LightBlocks = <<>> /\ installed = FALSE
    /\ stream = <<>> /\ pos = 1 /\ initPc = "idle"
    /\ lookupArg = NoArg /\ lookupRes = NoLookup /\ airRead = NoAirRead
HashIdle ==
    /\ hp = NilMap /\ hq = NilMap /\ orderP = <<>> /\ orderQ = <<>>
    /\ digestP = <<>> /\ digestQ = <<>> /\ hashPc = "idle"
Workers == 1..NWorkers
\* The buffers that can exist at once: one per worker.
BufIds == 1..NWorkers
IdleCall == [pc |-> "idle", kind |-> "", ind |-> 0, e |-> "", buf |-> 0,
             fromPool |-> FALSE, panic |-> FALSE, out |-> <<>>]
PoolIdle == pool = {} /\ bufs = [b \in BufIds |-> <<>>]
EncIdle ==
    /\ chunk = NoChunk /\ enc = "network" /\ encI = 0 /\ encD = NoData
    /\ encPc = "idle"
CallsIdle == calls = [w \in Workers |-> IdleCall]

\* ------------------------------------------------ hashProperties, exercised
\* The bytes string property values are made of.
StrBytes == {1}
\* Property keys "a" and "b".
HashKeys == {<<97>>, <<98>>}
HashValues ==
    {BoolV(TRUE), BoolV(FALSE), Uint8V(1), Int32V(1), Int32V(-1), Int64V(1)}
    \cup {StringV(s) : s \in StringsUpTo(StrBytes, MaxStrLen)}
HashBags ==
    {NilMap} \cup {Map(f) : f \in UNION {[K -> HashValues] : K \in SUBSET HashKeys}}

HashInit ==
    /\ hp \in HashBags /\ hq \in HashBags
    /\ orderP \in Perms(Keys(hp)) /\ orderQ \in Perms(Keys(hq))
    /\ bigEndian \in BOOLEAN
    /\ digestP = <<>> /\ digestQ = <<>> /\ hashPc = "start"
    /\ RegIdle /\ PoolIdle /\ EncIdle /\ CallsIdle

\* Two calls of hashProperties, one per bag, each with its own map iteration
\* order.
HashCall ==
    /\ hashPc = "start"
    /\ digestP' = hashProperties(hp, orderP, bigEndian)
    /\ digestQ' = hashProperties(hq, orderQ, bigEndian)
    /\ hashPc' = "done"
    /\ UNCHANGED <<hp, hq, orderP, orderQ, bigEndian, regVars, poolVars, encVars, calls>>

HashNext == HashCall
SpecHash == HashInit /\ [][HashNext]_vars

\* Two Go maps hold the same bag when they have the same keys with the same
\* values; a nil map and an empty map both hold the empty bag.
SameBag(p, q) == p.m = q.m

\* C4: hashProperties does not depend on the order in which the keys are
\* inserted or iterated: two maps holding the same bag get the same digest
\* (or both panic), whatever their iteration orders.
C4_OrderIndependent ==
    (hashPc = "done" /\ SameBag(hp, hq)) => digestP = digestQ
\* Two iteration orders of one two-key bag have been hashed.
C4_Witness ==
    /\ hashPc = "done" /\ SameBag(hp, hq) /\ orderP # orderQ
    /\ Len(orderP) = 2 /\ ~digestP.panic /\ Len(digestP.str) >= 2

\* C5: digests are equal only if the bags are: same key set, same value for
\* every key.
C5_Injective ==
    (hashPc = "done" /\ ~digestP.panic /\ ~digestQ.panic /\ digestP = digestQ)
        => SameBag(hp, hq)

\* ------------------------------------------------------------ the registry
\* blockState{Name, Properties, Version}
blockState(name, properties, version) ==
    [Name |-> name, Properties |-> properties, Version |-> version]

\* unknownBlock{s}: the placeholder block embedding the state.
unknownBlock(s) == s

\* stateHash{name, properties}
stateHash(name, digest) == [name |-> name, properties |-> digest]

tables == <<blocks, stateRuntimeIDs, nbtBlocks, randomTickBlocks, airRID,
            FilteringBlocks, LightBlocks>>

\* A runtime ID sequence that starts at 1.
nextRuntimeIDFromOne == Len(blocks) + 1

\* rid := uint32(len(blocks))
nextRuntimeID == Len(blocks)

\* A registration without the duplicate check: the later state silently
\* takes over the hash.
registerBlockStateOverwriting(s, order) ==
    LET d == hashProperties(s.Properties, order, bigEndian)
        h == stateHash(s.Name, d.str)
        rid == nextRuntimeID
    IN  IF d.panic
        THEN initPc' = "panicked" /\ UNCHANGED tables
        ELSE /\ airRID' = IF s.Name = "minecraft:air" THEN rid ELSE airRID
             /\ stateRuntimeIDs' = (h :> rid) @@ stateRuntimeIDs
             /\ blocks' = Append(blocks, unknownBlock(s))
             /\ nbtBlocks' = Append(nbtBlocks, FALSE)
             /\ randomTickBlocks' = Append(randomTickBlocks, FALSE)
             /\ FilteringBlocks' = Append(FilteringBlocks, 15)
             /\ LightBlocks' = Append(LightBlocks, 0)
             /\ UNCHANGED initPc

\* registerBlockState(s).  A panic (of hashProperties, or for a state already
\* registered) unwinds init() and ends the process with the tables as they
\* were.
registerBlockState(s, order) ==
    LET d == hashProperties(s.Properties, order, bigEndian)
        h == stateHash(s.Name, d.str)
        rid == nextRuntimeID
    IN  IF d.panic \/ h \in DOMAIN stateRuntimeIDs
        THEN initPc' = "panicked" /\ UNCHANGED tables
        ELSE /\ airRID' = IF s.Name = "minecraft:air" THEN rid ELSE airRID
             /\ stateRuntimeIDs' = stateRuntimeIDs @@ (h :> rid)
             /\ blocks' = Append(blocks, unknownBlock(s))
             /\ nbtBlocks' = Append(nbtBlocks, FALSE)
             /\ randomTickBlocks' = Append(randomTickBlocks, FALSE)
             /\ FilteringBlocks' = Append(FilteringBlocks, 15)
             /\ LightBlocks' = Append(LightBlocks, 0)
             /\ UNCHANGED initPc

\* StateToRuntimeID(name, properties): rid, ok := stateRuntimeIDs[...]
StateToRuntimeID(name, properties, order) ==
    LET d == hashProperties(properties, order, bigEndian)
        h == stateHash(name, d.str)
    IN  IF d.panic THEN [done |-> TRUE, panic |-> TRUE, rid |-> 0, found |-> FALSE]
        ELSE IF h \in DOMAIN stateRuntimeIDs
        THEN [done |-> TRUE, panic |-> FALSE, rid |-> stateRuntimeIDs[h], found |-> TRUE]
        ELSE [done |-> TRUE, panic |-> FALSE, rid |-> 0, found |-> FALSE]

\* The inputs of the registry specification.
RegNames == {"minecraft:air", "minecraft:stone"}
RegBags ==
    {NilMap,
     Map(<<97>> :> StringV(<<1>>)),
     Map(<<98>> :> StringV(<<1>>)),
     Map(<<97>> :> StringV(<<>>) @@ <<98>> :> Int32V(1)),
     Map(<<97>> :> Int64V(1))}
RegRecords == {blockState(n, p, 1) : n \in RegNames, p \in RegBags}
StreamsUpTo(n) == UNION {[1..k -> RegRecords] : k \in 0..n}

RegInit ==
    /\ blocks = <<>> /\ stateRuntimeIDs = <<>> /\ nbtBlocks = <<>>
    /\ randomTickBlocks = <<>> /\ airRID = 0
    /\ FilteringBlocks = <<>> /\ LightBlocks = <<>> /\ installed = FALSE
    /\ stream \in StreamsUpTo(MaxStream) /\ pos = 1 /\ initPc = "loop"
    /\ lookupArg = NoArg /\ lookupRes = NoLookup /\ airRead = NoAirRead
    /\ bigEndian \in BOOLEAN
    /\ HashIdle /\ PoolIdle /\ EncIdle /\ CallsIdle

regFrame == <<bigEndian, hashVars, poolVars, encVars, calls>>

\* init(), one turn of the loop: dec.Decode(&s) yields the next record and
\* registerBlockState(s) registers it.
InitLoopBody ==
    /\ initPc = "loop" /\ pos <= Len(stream)
    /\ \E order \in Perms(Keys(stream[pos].Properties)) :
          registerBlockState(stream[pos], order)
    /\ pos' = IF initPc' = "panicked" THEN pos ELSE pos + 1
    /\ UNCHANGED <<installed, stream, lookupArg, lookupRes, airRead, regFrame>>

\* The lookup function installed while records are still to be registered.
InitInstallEarly ==
    /\ initPc = "loop"
    /\ installed' = TRUE /\ initPc' = "done"
    /\ UNCHANGED <<tables, stream, pos, lookupArg, lookupRes, airRead, regFrame>>

\* init(), the end of the loop: dec.Decode fails (the stream is exhausted),
\* the loop breaks and StateToRuntimeID is assigned.
InitInstall ==
    /\ initPc = "loop" /\ pos > Len(stream)
    /\ installed' = TRUE /\ initPc' = "done"
    /\ UNCHANGED <<tables, stream, pos, lookupArg, lookupRes, airRead, regFrame>>

\* A call of StateToRuntimeID by the rest of the program.
Lookup ==
    /\ installed
    /\ \E name \in RegNames, properties \in RegBags :
       \E order \in Perms(Keys(properties)) :
          /\ lookupArg' = [name |-> name, properties |-> properties]
          /\ lookupRes' = StateToRuntimeID(name, properties, order)
    /\ UNCHANGED <<tables, installed, stream, pos, initPc, airRead, regFrame>>

\* A read of airRID by the rest of the package.
ReadAirRID ==
    /\ initPc = "done"
    /\ airRead' = [done |-> TRUE, rid |-> airRID]
    /\ UNCHANGED <<tables, installed, stream, pos, initPc, lookupArg, lookupRes, regFrame>>

RegNext == InitLoopBody \/ InitInstall \/ Lookup \/ ReadAirRID
SpecReg == RegInit /\ [][RegNext]_vars

\* The stateHash of a record (its digest does not depend on the order chosen).
RecordHash(s) ==
    LET order == CHOOSE o \in Perms(Keys(s.Properties)) : TRUE
    IN  stateHash(s.Name, hashProperties(s.Properties, order, bigEndian).str)

\* Every value of the bag has one of the four property types.
ValidBag(properties) ==
    \A k \in Keys(properties) :
        properties.m[k].type \in {"bool", "uint8", "int32", "string"}

\* The positions in blocks of the records registered under a name and bag.
RegisteredAt(name, properties) ==
    {k \in 1..Len(blocks) :
        blocks[k].Name = name /\ SameBag(blocks[k].Properties, properties)}

\* C1: a lookup of a registered (name, properties) returns the runtime ID
\* assigned at its registration with found = true, and a lookup of a pair
\* that was never registered returns found = false without panicking.
C1_LookupExact ==
    (lookupRes.done /\ ValidBag(lookupArg.properties)) =>
        LET at == RegisteredAt(lookupArg.name, lookupArg.properties)
        IN  /\ ~lookupRes.panic
            /\ lookupRes.found = (at # {})
            /\ \A k \in at : lookupRes.rid = k - 1

\* The record init() is about to register is already in the registry.
IsDuplicate(s) ==
    /\ ValidBag(s.Properties)
    /\ RecordHash(s) \in DOMAIN stateRuntimeIDs

\* C2: registering a state whose (name, digest) is already registered fails,
\* and the failed attempt leaves blocks, stateRuntimeIDs, nbtBlocks,
\* randomTickBlocks and airRID as they were.
C2_DuplicateFails ==
    [][(initPc = "loop" /\ pos <= Len(stream) /\ IsDuplicate(stream[pos]))
          => (initPc' = "panicked"
              /\ UNCHANGED <<blocks, stateRuntimeIDs, nbtBlocks,
                             randomTickBlocks, airRID>>)]_vars
\* A duplicate was met after two registrations, and the attempt has failed.
C2_Witness ==
    /\ initPc = "panicked" /\ pos = 3 /\ Len(blocks) = 2
    /\ IsDuplicate(stream[pos])
    /\ stream[pos].Name = stream[1].Name
    /\ SameBag(stream[pos].Properties, stream[1].Properties)

\* C3: runtime IDs are dense and in registration order from 0: the k-th
\* successful registration holds ID k-1, the IDs stored are exactly
\* 0..n-1, no two hashes share an ID, and a failed attempt consumes none.
C3_DenseIDs ==
    /\ Len(blocks) = pos - 1
    /\ \A k \in 1..Len(blocks) :
          /\ RecordHash(stream[k]) \in DOMAIN stateRuntimeIDs
          /\ stateRuntimeIDs[RecordHash(stream[k])] = k - 1
    /\ {stateRuntimeIDs[h] : h \in DOMAIN stateRuntimeIDs} = 0..(Len(blocks) - 1)
    /\ Cardinality(DOMAIN stateRuntimeIDs) = Len(blocks)
\* Three registrations succeeded; or two did and a third attempt failed.
C3_Witness ==
    \/ Len(blocks) = 3
    \/ initPc = "panicked" /\ Len(blocks) = 2 /\ IsDuplicate(stream[pos])

\* C9: the air ID is the runtime ID of the state registered under
\* "minecraft:air"; when no such state was registered, asking for it fails
\* and yields no runtime ID.
C9_AirID ==
    airRead.done =>
        \E k \in 1..Len(blocks) :
            blocks[k].Name = "minecraft:air" /\ airRead.rid = k - 1

\* C10: the build registers the records in stream order; once a
\* registration fails nothing more is registered and StateToRuntimeID is
\* never installed; it is installed only when every record of the stream
\* has been registered, so no lookup is answered from a half-built registry.
C10_BuildAborts ==
    /\ [](\A k \in 1..Len(blocks) : blocks[k] = unknownBlock(stream[k]))
    /\ []((installed \/ lookupRes.done) =>
             (initPc = "done" /\ Len(blocks) = Len(stream)))
    /\ [][initPc = "panicked" =>
             (initPc' = "panicked" /\ ~installed' /\ UNCHANGED tables)]_vars
\* A build that failed part-way, and a lookup answered after a full build.
C10_Witness ==
    initPc = "panicked" /\ ~installed /\ Len(blocks) = 1 /\ Len(stream) = 3
C10_WitnessInstalled ==
    installed /\ lookupRes.done /\ lookupRes.found /\ Len(stream) = 3

\* --------------------------------------------------------- the chunk encoder
\* *PalettedStorage: a nil pointer, or the storage's fields.
NilStorage == [nil |-> TRUE, bitsPerIndex |-> 0, indices |-> <<>>, palette |-> <<>>]
PalettedStorage(bits, indices, palette) ==
    [nil |-> FALSE, bitsPerIndex |-> bits, indices |-> indices, palette |-> palette]
SubChunk(storages) == [storages |-> storages]

\* byte(v), byte(v>>8), byte(v>>16), byte(v>>24)
Uint32Bytes(v) ==
    <<v % 256, (v \div 256) % 256, (v \div 65536) % 256, (v \div 16777216) % 256>>

\* A variable-length integer: seven bits a byte, low group first.
RECURSIVE Varint(_)
Varint(v) ==
    IF v < 128 THEN <<v>> ELSE <<128 + (v % 128)>> \o Varint(v \div 128)

RECURSIVE Concat(_)
Concat(ss) == IF ss = <<>> THEN <<>> ELSE Head(ss) \o Concat(Tail(ss))

\* e.network()
network(e) == IF e = "network" THEN 1 ELSE 0

\* e.encodePalette(buf, palette, pe): the bytes appended for the palette.
encodePalette(palette, e, pe) ==
    IF e = "network"
    THEN Varint(Len(palette)) \o Concat([i \in 1..Len(palette) |-> Varint(palette[i])])
    ELSE Uint32Bytes(Len(palette)) \o
         Concat([i \in 1..Len(palette) |->
                    IF pe = "BlockPaletteEncoding"
                    THEN <<10>> \o Uint32Bytes(palette[i]) \o <<0>>
                    ELSE Uint32Bytes(palette[i])])

\* encodePalettedStorage(buf, storage, e, pe): the buffer after the call.
encodePalettedStorage(buf, storage, e, pe) ==
    LET b0 == ((storage.bitsPerIndex * 2) % 256) + network(e)
        words == Concat([i \in 1..Len(storage.indices) |->
                            Uint32Bytes(storage.indices[i])])
    IN  buf \o <<b0>> \o words \o encodePalette(storage.palette, e, pe)

\* for _, storage := range storages { encodePalettedStorage(buf, storage, ...) }
\* A nil storage panics at its first field access, with the buffer as the
\* earlier writes left it.
RECURSIVE writeStorages(_, _, _, _)
writeStorages(buf, storages, e, pe) ==
    IF storages = <<>> THEN [panic |-> FALSE, buf |-> buf]
    ELSE IF Head(storages).nil THEN [panic |-> TRUE, buf |-> buf]
    ELSE writeStorages(encodePalettedStorage(buf, Head(storages), e, pe),
                       Tail(storages), e, pe)

\* []byte{SubChunkVersion, byte(len(s.storages)), uint8(ind + (r[0] >> 4))}
subChunkHeader(s, r, ind) ==
    <<SubChunkVersion, Len(s.storages) % 256, (ind + (r[1] \div 16)) % 256>>

\* The writes of EncodeSubChunk (kind "sub", 0-based index ind) or of
\* EncodeBiomes (kind "biomes") into a buffer holding buf.
encodeWrites(c, kind, ind, e, buf) ==
    IF kind = "sub"
    THEN writeStorages(buf \o subChunkHeader(c.sub[ind + 1], c.r, ind),
                       c.sub[ind + 1].storages, e, "BlockPaletteEncoding")
    ELSE writeStorages(buf, c.biomes, e, "BiomePaletteEncoding")

\* A release that puts the buffer back with what is in it.
bufferKept(content) == content

\* buf.Reset() in the deferred function.
bufferReset(content) == <<>>

held == {calls[w].buf : w \in Workers} \ {0}

\* pool.Get(): a pooled buffer, taken out of the pool, or a new empty one
\* (sync.Pool may ignore what it holds).
poolGet(b) ==
    \/ b \in pool /\ pool' = pool \ {b} /\ bufs' = bufs
    \/ /\ b \notin pool \cup held
       /\ pool' = pool /\ bufs' = [bufs EXCEPT ![b] = <<>>]

\* One whole call of EncodeSubChunk / EncodeBiomes on buffer b: Get, the
\* writes, sub := make([]byte, buf.Len()); buf.Read(sub), and the deferred
\* Reset and Put.  The outcome: a panic, or the bytes returned.
encodeCall(c, kind, ind, e, b) ==
    LET got == IF b \in pool THEN bufs[b] ELSE <<>>
        w == encodeWrites(c, kind, ind, e, got)
    IN  [panic |-> w.panic,
         out |-> IF w.panic THEN <<>> ELSE w.buf,
         left |-> bufferReset(IF w.panic THEN w.buf ELSE <<>>)]

\* The effect of such a call on the pool.
encodeCallPool(b, left) ==
    /\ b \in pool \/ b \notin pool \cup held
    /\ bufs' = [bufs EXCEPT ![b] = left]
    /\ pool' = pool \cup {b}

\* The inputs of the encoder specification.
Storages ==
    {PalettedStorage(0, <<>>, <<5>>),
     PalettedStorage(1, <<258>>, <<0, 130>>),
     NilStorage}
SubChunks ==
    {SubChunk(<<>>)} \cup {SubChunk(<<s>>) : s \in Storages}
    \cup {SubChunk(<<PalettedStorage(0, <<>>, <<5>>), PalettedStorage(1, <<258>>, <<0, 130>>)>>)}
Ranges == {<<-64, 319>>, <<0, 255>>}
\* The block-entity blob a chunk carries.
BlockEntityBlobs == {<<>>, <<10, 0>>}
Chunks ==
    [sub : UNION {[1..n -> SubChunks] : n \in 0..MaxSub},
     r : Ranges,
     biomes : {<<>>, <<PalettedStorage(0, <<>>, <<1>>)>>},
     blockEntities : BlockEntityBlobs]

EncInit ==
    /\ chunk \in Chunks /\ enc \in {"network", "disk"}
    /\ encI = 0 /\ encD = NoData /\ encPc = "call"
    /\ bigEndian \in BOOLEAN
    /\ PoolIdle /\ CallsIdle /\ RegIdle /\ HashIdle

encFrame == <<regVars, hashVars, bigEndian, calls>>

\* A composite literal that also copies the chunk's block-entity blob.
SerialisedDataWithBlob(c) ==
    [SubChunks |-> [i \in 1..Len(c.sub) |-> <<>>], Biomes |-> <<>>,
     BlockNBT |-> c.blockEntities]

\* SerialisedData{SubChunks: make([][]byte, len(c.sub))}: the fields not
\* named are nil.
SerialisedData(c) ==
    [SubChunks |-> [i \in 1..Len(c.sub) |-> <<>>], Biomes |-> <<>>,
     BlockNBT |-> <<>>]

\* Encode: d := SerialisedData{SubChunks: make([][]byte, len(c.sub))}
EncodeEnter ==
    /\ encPc = "call"
    /\ encD' = SerialisedData(chunk)
    /\ encI' = 0 /\ encPc' = "loop"
    /\ UNCHANGED <<chunk, enc, poolVars, encFrame>>

\* Encode: d.SubChunks[i] = EncodeSubChunk(s, e, c.r, i)
EncodeLoop ==
    /\ encPc = "loop" /\ encI < Len(chunk.sub)
    /\ \E b \in BufIds :
          LET res == encodeCall(chunk, "sub", encI, enc, b)
          IN  /\ encodeCallPool(b, res.left)
              /\ IF res.panic
                 THEN encPc' = "panicked" /\ UNCHANGED <<encD, encI>>
                 ELSE /\ encD' = [encD EXCEPT !.SubChunks[encI + 1] = res.out]
                      /\ encI' = encI + 1 /\ encPc' = "loop"
    /\ UNCHANGED <<chunk, enc, encFrame>>

\* Encode: d.Biomes = EncodeBiomes(c, e); return d
EncodeReturn ==
    /\ encPc = "loop" /\ encI = Len(chunk.sub)
    /\ \E b \in BufIds :
          LET res == encodeCall(chunk, "biomes", 0, enc, b)
          IN  /\ encodeCallPool(b, res.left)
              /\ IF res.panic
                 THEN encPc' = "panicked" /\ UNCHANGED encD
                 ELSE encD' = [encD EXCEPT !.Biomes = res.out] /\ encPc' = "done"
    /\ UNCHANGED <<chunk, enc, encI, encFrame>>

\* sync.Pool drops a pooled buffer (a garbage collection).
PoolDrop ==
    /\ \E b \in pool : pool' = pool \ {b}
    /\ UNCHANGED <<bufs, encVars, encFrame>>

EncNext == EncodeEnter \/ EncodeLoop \/ EncodeReturn \/ PoolDrop
SpecEnc == EncInit /\ [][EncNext]_vars

\* C6: a sub-chunk with zero storages encodes to a zero-length byte
\* sequence, so Encode leaves an empty byte-string at its position.
C6_EmptySubChunk ==
    \A i \in 1..Len(chunk.sub) :
        (encPc \in {"loop", "done"} /\ i <= encI /\ chunk.sub[i].storages = <<>>)
            => encD.SubChunks[i] = <<>>

PoolChunk ==
    [sub |-> <<SubChunk(<<>>),
               SubChunk(<<PalettedStorage(1, <<258>>, <<0, 130>>)>>),
               SubChunk(<<PalettedStorage(0, <<>>, <<5>>), NilStorage>>)>>,
     r |-> <<-64, 319>>,
     biomes |-> <<PalettedStorage(0, <<>>, <<1>>)>>,
     blockEntities |-> <<>>]
\* The calls made: <<kind, ind, e>>.
PoolCalls ==
    {<<"sub", 0, "network">>, <<"sub", 1, "network">>, <<"sub", 2, "disk">>,
     <<"biomes", 0, "disk">>}

PoolInit ==
    /\ PoolIdle /\ CallsIdle
    /\ bigEndian \in BOOLEAN
    /\ EncIdle /\ RegIdle /\ HashIdle

callFrame == <<regVars, hashVars, bigEndian, encVars>>

\* buf := pool.Get().(*bytes.Buffer), on entry to EncodeSubChunk or
\* EncodeBiomes.
CallGet(w) ==
    /\ calls[w].pc \in {"idle", "returned"}
    /\ \E a \in PoolCalls, b \in BufIds :
          /\ poolGet(b)
          /\ calls' = [calls EXCEPT ![w] =
                [pc |-> "got", kind |-> a[1], ind |-> a[2], e |-> a[3],
                 buf |-> b, fromPool |-> b \in pool, panic |-> FALSE,
                 out |-> <<>>]]
    /\ UNCHANGED callFrame

\* The header and storage writes into the call's own buffer; a nil storage
\* panics part-way.
CallWrite(w) ==
    /\ calls[w].pc = "got"
    /\ LET c == calls[w]
           wr == encodeWrites(PoolChunk, c.kind, c.ind, c.e, bufs[c.buf])
       IN  /\ bufs' = [bufs EXCEPT ![c.buf] = wr.buf]
           /\ calls' = [calls EXCEPT ![w].pc =
                            IF wr.panic THEN "panicking" ELSE "written",
                                     ![w].panic = wr.panic]
    /\ UNCHANGED <<pool, callFrame>>

\* sub := make([]byte, buf.Len()); _, _ = buf.Read(sub): the unread bytes
\* are copied out and the buffer is drained.
CallRead(w) ==
    /\ calls[w].pc = "written"
    /\ calls' = [calls EXCEPT ![w].pc = "read", ![w].out = bufs[calls[w].buf]]
    /\ bufs' = [bufs EXCEPT ![calls[w].buf] = <<>>]
    /\ UNCHANGED <<pool, callFrame>>

\* The deferred function, on return and on panic: buf.Reset(); pool.Put(buf)
CallRelease(w) ==
    /\ calls[w].pc \in {"read", "panicking"}
    /\ bufs' = [bufs EXCEPT ![calls[w].buf] = bufferReset(bufs[calls[w].buf])]
    /\ pool' = pool \cup {calls[w].buf}
    /\ calls' = [calls EXCEPT ![w].pc = "returned", ![w].buf = 0]
    /\ UNCHANGED callFrame

PoolNext ==
    \/ \E w \in Workers :
          CallGet(w) \/ CallWrite(w) \/ CallRead(w) \/ CallRelease(w)
    \/ PoolDrop
SpecPool == PoolInit /\ [][PoolNext]_vars

\* What a lone call with the same arguments, on a new buffer, produces.
LoneCall(kind, ind, e) == encodeWrites(PoolChunk, kind, ind, e, <<>>)

\* C8: under any interleaving of EncodeSubChunk and EncodeBiomes calls no
\* buffer is held by two calls, none is both held and pooled, every pooled
\* buffer is empty, a buffer just got is empty, and every call ends as a
\* lone sequential call with its arguments does: the same panic, or the
\* same bytes.
C8_PoolSafe ==
    /\ \A w1, w2 \in Workers :
          (w1 # w2 /\ calls[w1].buf # 0) => calls[w1].buf # calls[w2].buf
    /\ held \cap pool = {}
    /\ \A b \in pool : bufs[b] = <<>>
    /\ \A w \in Workers :
          /\ calls[w].pc = "got" => bufs[calls[w].buf] = <<>>
          /\ calls[w].pc = "returned" =>
                LET lone == LoneCall(calls[w].kind, calls[w].ind, calls[w].e)
                IN  /\ calls[w].panic = lone.panic
                    /\ ~lone.panic => calls[w].out = lone.buf
\* A call on a reused buffer has copied its bytes out while another call is
\* unwinding from a panic with bytes in its buffer.
C8_Witness ==
    \E w1, w2 \in Workers :
        /\ calls[w1].pc = "read" /\ calls[w1].fromPool /\ calls[w1].out # <<>>
        /\ calls[w2].pc = "panicking" /\ bufs[calls[w2].buf] # <<>>

====
